---- MODULE Spec2Model ----
(***************************************************************************)
(* Heart Health Navigator (src/app.py): the credential store users.csv,    *)
(* the per-session login state and history log, and the cached model       *)
(* artifacts, as a state machine of Streamlit script runs.                 *)
(*                                                                         *)
(* A script run executes app.py top to bottom for one session.  A run is   *)
(* split into the steps at which it touches state shared with the other    *)
(* sessions (the file users.csv, the artifact cache):                      *)
(*   init -> [create] -> cache -> main -> handler steps -> idle            *)
(* Text is a sequence of one-character strings, so that pandas' parsing    *)
(* and formatting of the CSV fields is computed and not assumed.           *)
(***************************************************************************)
EXTENDS Integers, Sequences, FiniteSets, TLC

VARIABLES
  users_csv,      \* the file users.csv: [exists, rows], rows of three text fields
  model_file,     \* heart_disease_model.joblib is on disk
  scaler_file,    \* scaler.joblib is on disk
  cache,          \* st.cache_resource entry of load_model_and_scaler: [done, ok]
  load_calls,     \* how many times the body of load_model_and_scaler has run
  session_state,  \* per session: st.session_state
  selected,       \* per session: the option_menu selection
  pc,             \* per session: position of the running script, "idle" between runs
  ev,             \* per session: the widget event that triggered the running script
  users_df,       \* per session: the local users_df of show_login_page
  msg,            \* per session: what the last run rendered (error, success, exception)
  download,       \* per session: the CSV offered by the download button, if rendered
  recorded        \* per session: the entries recorded, oldest first (history variable)

vars == <<users_csv, model_file, scaler_file, cache, load_calls, session_state,
          selected, pc, ev, users_df, msg, download, recorded>>

--------------------------------------------------------------------------
(* Bounds and input sets *)

MaxUsers == 2
MaxHistory == 2

Sessions == {"s1", "s2"}

Usernames == { <<>>, <<"a">>, <<"1">>, <<"0", "1">> }
Passwords == { <<"p">>, <<"7">> }
Emails == { <<"e">> }
Ages == {52, 70}
Dates == {"2026-11-04 10:00"}
Pages == {"Home", "Prediction Tool"}

--------------------------------------------------------------------------
(* Text and numbers, as pandas' CSV reader and writer treat them *)

Digits == {"0", "1", "2", "3", "4", "5", "6", "7", "8", "9"}

DigitVal(c) ==
  CASE c = "0" -> 0 [] c = "1" -> 1 [] c = "2" -> 2 [] c = "3" -> 3 [] c = "4" -> 4
    [] c = "5" -> 5 [] c = "6" -> 6 [] c = "7" -> 7 [] c = "8" -> 8 [] c = "9" -> 9

DigitChar(d) ==
  CASE d = 0 -> "0" [] d = 1 -> "1" [] d = 2 -> "2" [] d = 3 -> "3" [] d = 4 -> "4"
    [] d = 5 -> "5" [] d = 6 -> "6" [] d = 7 -> "7" [] d = 8 -> "8" [] d = 9 -> "9"

IsIntText(t) == Len(t) > 0 /\ \A i \in 1..Len(t) : t[i] \in Digits

RECURSIVE IntVal(_)
IntVal(t) ==
  IF Len(t) = 0 THEN 0
  ELSE IntVal(SubSeq(t, 1, Len(t) - 1)) * 10 + DigitVal(t[Len(t)])

\* The only dotted texts a store over this alphabet can hold are the ones the
\* writer produced from a whole-valued float: digits, ".", "0".
IsFloatText(t) ==
  /\ Len(t) >= 3
  /\ t[Len(t) - 1] = "."
  /\ t[Len(t)] = "0"
  /\ IsIntText(SubSeq(t, 1, Len(t) - 2))

FloatVal(t) == IntVal(SubSeq(t, 1, Len(t) - 2))

RECURSIVE Dec(_)
Dec(n) == IF n < 10 THEN <<DigitChar(n)>> ELSE Dec(n \div 10) \o <<DigitChar(n % 10)>>

\* DataFrame cells
StrCell(t) == [k |-> "str", s |-> t, n |-> 0]
IntCell(n) == [k |-> "int", s |-> <<>>, n |-> n]
FloatCell(n) == [k |-> "float", s |-> <<>>, n |-> n]
NaN == [k |-> "nan", s |-> <<>>, n |-> 0]

Columns == {"username", "password", "email"}

\* dtype inference of read_csv for one column of field texts
ColumnKind(texts) ==
  IF Len(texts) = 0 THEN "object"
  ELSE IF \A i \in 1..Len(texts) : IsIntText(texts[i]) THEN "int64"
  ELSE IF \A i \in 1..Len(texts) :
            texts[i] = <<>> \/ IsIntText(texts[i]) \/ IsFloatText(texts[i])
       THEN "float64"
  ELSE "object"

ParseCell(kind, t) ==
  IF kind = "int64" THEN IntCell(IntVal(t))
  ELSE IF t = <<>> THEN NaN
  ELSE IF kind = "float64"
       THEN (IF IsFloatText(t) THEN FloatCell(FloatVal(t)) ELSE FloatCell(IntVal(t)))
  ELSE StrCell(t)

\* to_csv's text of one cell (na_rep is the empty text)
FormatCell(c) ==
  CASE c.k = "str" -> c.s
    [] c.k = "int" -> Dec(c.n)
    [] c.k = "float" -> Dec(c.n) \o <<".", "0">>
    [] c.k = "nan" -> <<>>

\* load_user_data: pd.read_csv('users.csv')
load_user_data ==
  LET rows == users_csv.rows
      kind(c) == ColumnKind([i \in 1..Len(rows) |-> rows[i][c]])
  IN [i \in 1..Len(rows) |-> [c \in Columns |-> ParseCell(kind(c), rows[i][c])]]

\* the file save_user_data(df) writes: df.to_csv('users.csv', index=False)
to_csv(df) ==
  [exists |-> TRUE,
   rows |-> [i \in 1..Len(df) |-> [c \in Columns |-> FormatCell(df[i][c])]]]

\* pd.DataFrame(columns=[...]).to_csv: the header and no record
EmptyStore == [exists |-> TRUE, rows |-> <<>>]

\* elementwise == of a column value with a Python str
CellEq(c, t) == c.k = "str" /\ c.s = t

\* new_username in users_df['username'].values
UsernameExists(df, u) == \E i \in 1..Len(df) : CellEq(df[i]["username"], u)

\* Faulty variant of MatchingRows: the password mask is dropped.
MatchingRows_IgnorePassword(df, u, p) ==
  { i \in 1..Len(df) : CellEq(df[i]["username"], u) }

\* users_df[(users_df['username'] == username) & (users_df['password'] == password)]
MatchingRows(df, u, p) ==
  { i \in 1..Len(df) : CellEq(df[i]["username"], u) /\ CellEq(df[i]["password"], p) }

\* pd.concat([users_df, new_user], ignore_index=True)
ConcatNewUser(df, u, p, e) ==
  Append(df, [c \in Columns |->
                StrCell(CASE c = "username" -> u [] c = "password" -> p [] c = "email" -> e)])

--------------------------------------------------------------------------
(* The prediction form, the fitted artifacts and the history entries *)

\* The joblib artifacts are opaque to app.py.  One fitted pair stands for them:
\* class probabilities in percent, <<class 0, class 1>>, from the scaled input.
predict_proba(age) == IF age >= 60 THEN <<20, 80>> ELSE <<90, 10>>

\* model.predict: the class of the larger probability
predict(age) == IF predict_proba(age)[2] > predict_proba(age)[1] THEN 1 ELSE 0

\* f"{confidence:.2f}%" of a whole percentage
FormatConfidence(c) == Dec(c) \o <<".", "0", "0", "%">>

\* the dict show_prediction_page inserts into st.session_state.history
HistoryEntry(date, age) ==
  LET prediction == predict(age)
      confidence == predict_proba(age)[prediction + 1]
  IN [Date |-> date,
      Prediction |-> IF prediction = 1 THEN "High Risk" ELSE "Low Risk",
      Confidence |-> FormatConfidence(confidence),
      Age |-> age, Sex |-> "Male", ChestPainType |-> 0, Cholesterol |-> 200]

\* Faulty variant of InsertEntry: history.append(entry).
InsertEntry_AtEnd(history, entry) == Append(history, entry)

\* st.session_state.history.insert(0, entry)
InsertEntry(history, entry) == <<entry>> \o history

\* one line of history_df.to_csv(index=False): every value as text
CsvLine(h) ==
  [Date |-> h.Date, Prediction |-> h.Prediction, Confidence |-> h.Confidence,
   Age |-> Dec(h.Age), Sex |-> h.Sex, ChestPainType |-> Dec(h.ChestPainType),
   Cholesterol |-> Dec(h.Cholesterol)]

\* pd.DataFrame(st.session_state.history).to_csv(index=False): one line per entry
ExportCsv(history) == [i \in 1..Len(history) |-> CsvLine(history[i])]

--------------------------------------------------------------------------
(* Script runs *)

NoEvent == [kind |-> "none", u |-> <<>>, p |-> <<>>, e |-> <<>>, page |-> "Home",
            age |-> 0, date |-> ""]
OpenEvent == [NoEvent EXCEPT !.kind = "open"]
LoginEvent(u, p) == [NoEvent EXCEPT !.kind = "login", !.u = u, !.p = p]
SignupEvent(u, p, e) == [NoEvent EXCEPT !.kind = "signup", !.u = u, !.p = p, !.e = e]
LogoutEvent == [NoEvent EXCEPT !.kind = "logout"]
SelectEvent(page) == [NoEvent EXCEPT !.kind = "select", !.page = page]
PredictEvent(age, date) == [NoEvent EXCEPT !.kind = "predict", !.age = age, !.date = date]

NoDownload == [shown |-> FALSE, rows |-> <<>>]

NewSession ==
  [init |-> FALSE, logged_in |-> FALSE, username |-> <<>>,
   has_history |-> FALSE, history |-> <<>>]

Init ==
  /\ users_csv = [exists |-> FALSE, rows |-> <<>>]
  /\ model_file \in BOOLEAN
  /\ scaler_file \in BOOLEAN
  /\ cache = [done |-> FALSE, ok |-> FALSE]
  /\ load_calls = 0
  /\ session_state = [s \in Sessions |-> NewSession]
  /\ selected = [s \in Sessions |-> "Home"]
  /\ pc = [s \in Sessions |-> "idle"]
  /\ ev = [s \in Sessions |-> NoEvent]
  /\ users_df = [s \in Sessions |-> <<>>]
  /\ msg = [s \in Sessions |-> ""]
  /\ download = [s \in Sessions |-> NoDownload]
  /\ recorded = [s \in Sessions |-> <<>>]

\* Which widget events the page rendered by the session's last run can send.
CanSend(s, e) ==
  LET ss == session_state[s] IN
  CASE e.kind = "open" -> ~ss.init
    [] e.kind \in {"login", "signup"} -> ss.init /\ ~ss.logged_in
    [] e.kind \in {"logout", "select"} -> ss.init /\ ss.logged_in
    [] e.kind = "predict" ->
         ss.init /\ ss.logged_in /\ selected[s] = "Prediction Tool" /\ ss.has_history
    [] OTHER -> FALSE

\* A widget event starts a script run of the session.
Begin(s, e) ==
  /\ pc[s] = "idle"
  /\ CanSend(s, e)
  /\ pc' = [pc EXCEPT ![s] = "init"]
  /\ ev' = [ev EXCEPT ![s] = e]
  /\ msg' = [msg EXCEPT ![s] = ""]
  /\ download' = [download EXCEPT ![s] = NoDownload]
  /\ UNCHANGED <<users_csv, model_file, scaler_file, cache, load_calls,
                 session_state, selected, users_df, recorded>>

\* if not os.path.exists('users.csv'):
StoreExists == users_csv.exists

InitStoreCheck(s) ==
  /\ pc[s] = "init"
  /\ pc' = [pc EXCEPT ![s] = IF StoreExists THEN "cache" ELSE "create"]
  /\ UNCHANGED <<users_csv, model_file, scaler_file, cache, load_calls,
                 session_state, selected, ev, users_df, msg, download, recorded>>

\* pd.DataFrame(columns=[...]).to_csv('users.csv', index=False)
InitStoreCreate(s) ==
  /\ pc[s] = "create"
  /\ users_csv' = EmptyStore
  /\ pc' = [pc EXCEPT ![s] = "cache"]
  /\ UNCHANGED <<model_file, scaler_file, cache, load_calls,
                 session_state, selected, ev, users_df, msg, download, recorded>>

\* Faulty variant of CacheHit: a failed load is not kept, so it is tried again.
CacheHit_OnlySuccess == cache.done /\ cache.ok

\* @st.cache_resource: the stored return value is reused, (None, None) included
CacheHit == cache.done

\* joblib.load of both files; FileNotFoundError gives (None, None)
ArtifactsLoad == model_file /\ scaler_file

\* model, scaler = load_model_and_scaler()
LoadArtifacts(s) ==
  /\ pc[s] = "cache"
  /\ IF CacheHit
       THEN UNCHANGED <<cache, load_calls>>
       ELSE /\ cache' = [done |-> TRUE, ok |-> ArtifactsLoad]
            /\ load_calls' = load_calls + 1
  /\ pc' = [pc EXCEPT ![s] = "main"]
  /\ UNCHANGED <<users_csv, model_file, scaler_file,
                 session_state, selected, ev, users_df, msg, download, recorded>>

\* if 'logged_in' not in st.session_state: ...
InitSession(ss) ==
  IF ss.init THEN ss
  ELSE [ss EXCEPT !.init = TRUE, !.logged_in = FALSE, !.username = <<>>]

\* not logged in: show_login_page renders the forms; a submit goes to its handler
MainLoginPage(s) ==
  /\ pc[s] = "main"
  /\ ~InitSession(session_state[s]).logged_in
  /\ session_state' = [session_state EXCEPT ![s] = InitSession(@)]
  /\ IF ev[s].kind = "login" THEN /\ pc' = [pc EXCEPT ![s] = "login"]
                                  /\ UNCHANGED ev
     ELSE IF ev[s].kind = "signup" THEN /\ pc' = [pc EXCEPT ![s] = "signup_load"]
                                        /\ UNCHANGED ev
     ELSE /\ pc' = [pc EXCEPT ![s] = "idle"]
          /\ ev' = [ev EXCEPT ![s] = NoEvent]
  /\ UNCHANGED <<users_csv, model_file, scaler_file, cache, load_calls,
                 selected, users_df, msg, download, recorded>>

\* what the Logout button does to st.session_state
LogoutState(ss) == [ss EXCEPT !.logged_in = FALSE, !.username = <<>>]

\* logged in, Logout clicked: reset the login fields and st.rerun()
MainLogout(s) ==
  /\ pc[s] = "main"
  /\ session_state[s].init /\ session_state[s].logged_in
  /\ ev[s].kind = "logout"
  /\ session_state' = [session_state EXCEPT ![s] = LogoutState(@)]
  /\ selected' = [selected EXCEPT ![s] = "Home"]
  /\ pc' = [pc EXCEPT ![s] = "init"]
  /\ ev' = [ev EXCEPT ![s] = OpenEvent]
  /\ UNCHANGED <<users_csv, model_file, scaler_file, cache, load_calls,
                 users_df, msg, download, recorded>>

\* if 'history' not in st.session_state: st.session_state.history = []
InitHistory(ss) ==
  IF ss.has_history THEN ss ELSE [ss EXCEPT !.has_history = TRUE, !.history = <<>>]

\* logged in, no submit: the selected page is rendered
MainPage(s) ==
  /\ pc[s] = "main"
  /\ session_state[s].init /\ session_state[s].logged_in
  /\ ev[s].kind \notin {"logout", "predict"}
  /\ LET page == IF ev[s].kind = "select" THEN ev[s].page ELSE selected[s] IN
       /\ selected' = [selected EXCEPT ![s] = page]
       /\ session_state' =
            [session_state EXCEPT ![s] = IF page = "Prediction Tool" THEN InitHistory(@) ELSE @]
  /\ pc' = [pc EXCEPT ![s] = "idle"]
  /\ ev' = [ev EXCEPT ![s] = NoEvent]
  /\ UNCHANGED <<users_csv, model_file, scaler_file, cache, load_calls,
                 users_df, msg, download, recorded>>

\* scaler.transform / model.predict on the cached pair: None raises AttributeError
ArtifactsUsable == cache.ok

\* logged in, prediction form submitted
MainPredict(s) ==
  /\ pc[s] = "main"
  /\ session_state[s].init /\ session_state[s].logged_in
  /\ ev[s].kind = "predict"
  /\ IF ArtifactsUsable
       THEN LET entry == HistoryEntry(ev[s].date, ev[s].age)
                hist == InsertEntry(InitHistory(session_state[s]).history, entry)
            IN /\ session_state' =
                    [session_state EXCEPT ![s] = [InitHistory(@) EXCEPT !.history = hist]]
               /\ recorded' = [recorded EXCEPT ![s] = Append(@, entry)]
               /\ msg' = [msg EXCEPT ![s] = "Analysis Complete"]
               /\ download' = [download EXCEPT ![s] =
                                 IF hist # <<>> THEN [shown |-> TRUE, rows |-> ExportCsv(hist)]
                                 ELSE NoDownload]
       ELSE /\ session_state' = [session_state EXCEPT ![s] = InitHistory(@)]
            /\ msg' = [msg EXCEPT ![s] = "AttributeError"]
            /\ UNCHANGED <<recorded, download>>
  /\ pc' = [pc EXCEPT ![s] = "idle"]
  /\ ev' = [ev EXCEPT ![s] = NoEvent]
  /\ UNCHANGED <<users_csv, model_file, scaler_file, cache, load_calls,
                 selected, users_df>>

\* Login submit: load the store, compare, set the session or report the error
Login(s) ==
  /\ pc[s] = "login"
  /\ LET df == load_user_data
         user == MatchingRows(df, ev[s].u, ev[s].p)
     IN IF user # {}
          THEN LET first == CHOOSE i \in user : \A j \in user : i <= j IN
               /\ session_state' = [session_state EXCEPT
                                      ![s].logged_in = TRUE,
                                      ![s].username = df[first]["username"].s]
               /\ msg' = [msg EXCEPT ![s] = "Logged in successfully!"]
               /\ pc' = [pc EXCEPT ![s] = "init"]
               /\ ev' = [ev EXCEPT ![s] = OpenEvent]
          ELSE /\ msg' = [msg EXCEPT ![s] = "Incorrect username or password."]
               /\ pc' = [pc EXCEPT ![s] = "idle"]
               /\ ev' = [ev EXCEPT ![s] = NoEvent]
               /\ UNCHANGED session_state
  /\ UNCHANGED <<users_csv, model_file, scaler_file, cache, load_calls,
                 selected, users_df, download, recorded>>

\* Sign Up submit, first step: users_df = load_user_data()
SignupLoad(s) ==
  /\ pc[s] = "signup_load"
  /\ users_df' = [users_df EXCEPT ![s] = load_user_data]
  /\ pc' = [pc EXCEPT ![s] = "signup_check"]
  /\ UNCHANGED <<users_csv, model_file, scaler_file, cache, load_calls,
                 session_state, selected, ev, msg, download, recorded>>

\* if new_username in users_df['username'].values: st.error(...)
SignupCheck(s) ==
  /\ pc[s] = "signup_check"
  /\ IF UsernameExists(users_df[s], ev[s].u)
       THEN /\ msg' = [msg EXCEPT ![s] = "Username already exists."]
            /\ pc' = [pc EXCEPT ![s] = "idle"]
            /\ ev' = [ev EXCEPT ![s] = NoEvent]
            /\ users_df' = [users_df EXCEPT ![s] = <<>>]
       ELSE /\ pc' = [pc EXCEPT ![s] = "signup_save"]
            /\ UNCHANGED <<msg, ev, users_df>>
  /\ UNCHANGED <<users_csv, model_file, scaler_file, cache, load_calls,
                 session_state, selected, download, recorded>>

\* else: concat the new row and save_user_data(updated_users_df)
SignupSave(s) ==
  /\ pc[s] = "signup_save"
  /\ users_csv' = to_csv(ConcatNewUser(users_df[s], ev[s].u, ev[s].p, ev[s].e))
  /\ msg' = [msg EXCEPT ![s] = "Account created!"]
  /\ pc' = [pc EXCEPT ![s] = "idle"]
  /\ ev' = [ev EXCEPT ![s] = NoEvent]
  /\ users_df' = [users_df EXCEPT ![s] = <<>>]
  /\ UNCHANGED <<model_file, scaler_file, cache, load_calls,
                 session_state, selected, download, recorded>>

\* The operator adds or removes an artifact file while the process runs.
ToggleModelFile ==
  /\ model_file' = ~model_file
  /\ UNCHANGED <<users_csv, scaler_file, cache, load_calls, session_state, selected,
                 pc, ev, users_df, msg, download, recorded>>

ToggleScalerFile ==
  /\ scaler_file' = ~scaler_file
  /\ UNCHANGED <<users_csv, model_file, cache, load_calls, session_state, selected,
                 pc, ev, users_df, msg, download, recorded>>

AllIdle == \A s \in Sessions : pc[s] = "idle"

--------------------------------------------------------------------------
(* Spec: the credential store, one script run at a time (the single-threaded
   model of section 5).  Sessions open, sign up, log in and log out. *)

CredentialEvents ==
  {OpenEvent, LogoutEvent}
  \cup { LoginEvent(u, p) : u \in Usernames, p \in Passwords }
  \cup (IF Len(users_csv.rows) < MaxUsers
          THEN { SignupEvent(u, p, e) : u \in Usernames, p \in Passwords, e \in Emails }
          ELSE {})

CredentialStep(s) ==
  \/ InitStoreCheck(s)
  \/ InitStoreCreate(s)
  \/ LoadArtifacts(s)
  \/ MainLoginPage(s)
  \/ MainLogout(s)
  \/ MainPage(s)
  \/ Login(s)
  \/ SignupLoad(s)
  \/ SignupCheck(s)
  \/ SignupSave(s)

SerialBegin(s) == AllIdle /\ \E e \in CredentialEvents : Begin(s, e)

Next ==
  \/ \E s \in Sessions : SerialBegin(s)
  \/ \E s \in Sessions : CredentialStep(s)

Spec == Init /\ [][Next]_vars

--------------------------------------------------------------------------
(* HistorySpec: the history log and the artifacts, one script run at a time,
   from a store that holds two accounts.  Sessions open, log in, select a
   page, submit the prediction form and log out; the operator adds and
   removes the artifact files. *)

Accounts == << [username |-> <<"a">>, password |-> <<"p">>, email |-> <<"e">>],
               [username |-> <<"b">>, password |-> <<"p">>, email |-> <<"e">>] >>

HistoryInit ==
  /\ users_csv = [exists |-> TRUE, rows |-> Accounts]
  /\ model_file \in BOOLEAN
  /\ scaler_file \in BOOLEAN
  /\ cache = [done |-> FALSE, ok |-> FALSE]
  /\ load_calls = 0
  /\ session_state = [s \in Sessions |-> NewSession]
  /\ selected = [s \in Sessions |-> "Home"]
  /\ pc = [s \in Sessions |-> "idle"]
  /\ ev = [s \in Sessions |-> NoEvent]
  /\ users_df = [s \in Sessions |-> <<>>]
  /\ msg = [s \in Sessions |-> ""]
  /\ download = [s \in Sessions |-> NoDownload]
  /\ recorded = [s \in Sessions |-> <<>>]

HistoryEvents(s) ==
  {OpenEvent, LogoutEvent}
  \cup { SelectEvent(page) : page \in Pages }
  \cup { LoginEvent(Accounts[i].username, Accounts[i].password) : i \in 1..Len(Accounts) }
  \cup (IF Len(session_state[s].history) < MaxHistory
          THEN { PredictEvent(age, date) : age \in Ages, date \in Dates }
          ELSE {})

HistoryStep(s) ==
  \/ InitStoreCheck(s)
  \/ LoadArtifacts(s)
  \/ MainLoginPage(s)
  \/ MainLogout(s)
  \/ MainPage(s)
  \/ MainPredict(s)
  \/ Login(s)

HistoryBegin(s) == AllIdle /\ \E e \in HistoryEvents(s) : Begin(s, e)

HistoryNext ==
  \/ \E s \in Sessions : HistoryBegin(s)
  \/ \E s \in Sessions : HistoryStep(s)
  \/ ToggleModelFile
  \/ ToggleScalerFile

HistorySpec == HistoryInit /\ [][HistoryNext]_vars

--------------------------------------------------------------------------
(* ConcurrentSpec: the sessions' script runs interleave at every step that
   touches users.csv (Streamlit runs each session's script in its own
   thread).  Sessions open, sign up, log in and log out. *)

ConcurrentUsernames == { <<"a">>, <<"0", "1">> }
ConcurrentPasswords == { <<"p">> }

ConcurrentEvents ==
  {OpenEvent, LogoutEvent}
  \cup { LoginEvent(u, p) : u \in ConcurrentUsernames, p \in ConcurrentPasswords }
  \cup (IF Len(users_csv.rows) < MaxUsers
          THEN { SignupEvent(u, p, e) :
                   u \in ConcurrentUsernames, p \in ConcurrentPasswords, e \in Emails }
          ELSE {})

ConcurrentBegin(s) == \E e \in ConcurrentEvents : Begin(s, e)

ConcurrentNext ==
  \/ \E s \in Sessions : ConcurrentBegin(s)
  \/ \E s \in Sessions : CredentialStep(s)

ConcurrentSpec == Init /\ [][ConcurrentNext]_vars

--------------------------------------------------------------------------
(* Properties *)

\* the persisted records, as the file holds them
Records == { users_csv.rows[i] : i \in 1..Len(users_csv.rows) }

\* the file holds a record of this username
InStore(u) == \E r \in Records : r["username"] = u

\* the file holds a record of this username and this password
HasAccount(u, p) == \E r \in Records : r["username"] = u /\ r["password"] = p

History(s) == session_state[s].history

RECURSIVE Reverse(_)
Reverse(q) == IF q = <<>> THEN <<>> ELSE Append(Reverse(Tail(q)), Head(q))

\* the step that ends the prediction submit of session s
PredictSubmit(s) == pc[s] = "main" /\ ev[s].kind = "predict" /\ pc'[s] = "idle"

(* C1: a Sign Up submit whose username is already in the credential store
   fails with "Username already exists." and leaves the persisted records
   as they were. *)
C1_DuplicateUsernameRejected ==
  [][\A s \in Sessions :
       (pc[s] = "signup_check" /\ InStore(ev[s].u))
         => /\ pc'[s] = "idle"
            /\ msg'[s] = "Username already exists."
            /\ users_csv' = users_csv]_vars

(* C2: no two records of the persisted credential store have the same
   username, whatever register calls have run one at a time. *)
C2_UsernamesUnique ==
  \A i, j \in 1..Len(users_csv.rows) :
    i # j => users_csv.rows[i]["username"] # users_csv.rows[j]["username"]

(* C3: a Login submit with the username and password of a registered
   account (the store holds the record the successful register persisted)
   logs the session in as that username. *)
C3_RegisteredAccountLogsIn ==
  [][\A s \in Sessions :
       (pc[s] = "login" /\ pc'[s] # "login" /\ HasAccount(ev[s].u, ev[s].p))
         => /\ session_state'[s].logged_in
            /\ session_state'[s].username = ev[s].u]_vars

(* C4: of two overlapping Sign Up submits of the same username, which the
   store does not hold, at most one passes the duplicate check and goes on
   to write the store; the other fails with DuplicateUsername. *)
C4_OneConcurrentRegisterSucceeds ==
  \A s, t \in Sessions :
    (s # t /\ pc[s] = "signup_save" /\ pc[t] = "signup_save" /\ ev[s].u = ev[t].u)
      => InStore(ev[s].u)

(* C5: accounts are never mutated and never deleted: every record the
   store holds is held, with the same username, password and email, after
   every step of every session. *)
C5_RecordsNeverLost ==
  [][\A r \in Records : r \in Records']_vars

(* C6: a Login submit logs the session in only when the store holds a
   record with exactly that username and password; with no such record it
   reports "Incorrect username or password.", the session stays logged out
   with an empty username, and the store is unchanged either way. *)
C6_LoginOnlyOnExactMatch ==
  [][\A s \in Sessions :
       (pc[s] = "login" /\ pc'[s] # "login")
         => /\ users_csv' = users_csv
            /\ session_state'[s].logged_in
                 => (HasAccount(ev[s].u, ev[s].p) /\ session_state'[s].username = ev[s].u)
            /\ ~HasAccount(ev[s].u, ev[s].p)
                 => /\ msg'[s] = "Incorrect username or password."
                    /\ ~session_state'[s].logged_in
                    /\ session_state'[s].username = <<>>]_vars

\* C6's case: one session was refused, another is logged in
C6_Witness ==
  \E s, t \in Sessions :
    /\ msg[s] = "Incorrect username or password." /\ ~session_state[s].logged_in
    /\ session_state[t].logged_in /\ msg[t] = "Logged in successfully!"

(* C7: a session that has logged out holds no history entry recorded
   before the logout. *)
C7_LogoutClearsHistory ==
  \A s \in Sessions :
    (session_state[s].init /\ ~session_state[s].logged_in) => History(s) = <<>>

(* C8 as stated: every prediction submit adds exactly one entry at the head
   of the session's history and keeps the earlier entries in their order. *)
C8_EverySubmitPrepends ==
  [][\A s \in Sessions :
       PredictSubmit(s)
         => /\ Len(History(s)') = Len(History(s)) + 1
            /\ Tail(History(s)') = History(s)]_vars

(* C8 amended: the history is the recorded entries in reverse order of
   recording; a prediction submit served by loaded artifacts adds exactly
   one entry at the head and keeps the earlier entries in their order, a
   submit while the artifacts are missing adds none, and no other step
   changes the history; the CSV offered lists the entries in the same
   order. *)
C8_MostRecentFirst ==
  /\ [](\A s \in Sessions :
          /\ History(s) = Reverse(recorded[s])
          /\ download[s].shown
               => /\ Len(download[s].rows) = Len(History(s))
                  /\ \A i \in 1..Len(History(s)) :
                       /\ download[s].rows[i].Age = Dec(History(s)[i].Age)
                       /\ download[s].rows[i].Prediction = History(s)[i].Prediction
                       /\ download[s].rows[i].Confidence = History(s)[i].Confidence
                       /\ download[s].rows[i].Date = History(s)[i].Date)
  /\ [][\A s \in Sessions :
          IF PredictSubmit(s) /\ cache.ok
            THEN /\ History(s)' = <<HistoryEntry(ev[s].date, ev[s].age)>> \o History(s)
                 /\ download'[s].shown
            ELSE History(s)' = History(s)]_vars

\* C8's case: two different entries recorded, the later one first, and exported
C8_Witness ==
  \E s \in Sessions :
    /\ Len(History(s)) = 2
    /\ History(s)[1] # History(s)[2]
    /\ recorded[s][2] = History(s)[1]
    /\ download[s].shown

(* C9: load_model_and_scaler runs at most once in the process; once it has
   found an artifact missing, the cached failure stays, and no step after
   it produces a prediction result or adds a history entry in any session. *)
C9_LoadOnceNoRetry ==
  /\ [](load_calls <= 1)
  /\ [][(cache.done /\ ~cache.ok)
          => /\ cache' = cache
             /\ \A s \in Sessions :
                  /\ History(s)' = History(s)
                  /\ msg'[s] # "Analysis Complete"
                  /\ ~download'[s].shown]_vars

\* C9's case: the load failed, both files are on disk by now, and a
\* prediction submit has ended in the exception
C9_Witness ==
  /\ cache.done /\ ~cache.ok
  /\ model_file /\ scaler_file
  /\ \E s \in Sessions : msg[s] = "AttributeError" /\ History(s) = <<>>

(* C10: the create step of the store initialization runs only while no
   store exists: an existing store is never re-created or overwritten by
   initialization, under every interleaving. *)
C10_InitNeverOverwrites ==
  \A s \in Sessions : pc[s] = "create" => ~users_csv.exists

====
